---- MODULE Spec2Model ----
(***************************************************************************)
(* The dynamic tool registry of unified-mcp (src/core/dynamic_registry.py) *)
(* as a state machine: capability records with their lazy-loaded handlers, *)
(* and the coroutines of describe_tools / execute_tool interleaving at     *)
(* their await points on one cooperative asyncio scheduler.                *)
(***************************************************************************)
EXTENDS Integers, Sequences, FiniteSets, TLC

\* ------------------------------------------------------------------ bounds
\* Handler instances constructed in one behaviour.
MaxHandlers == 2
\* Longest tool_names list handed to describe_tools.
MaxBatch == 2
\* reload_catalog() calls in one behaviour.
MaxReloads == 1

\* The concurrent logical requests (coroutines) on the event loop.
Tasks == {"T1", "T2"}

\* ----------------------------------------------------------- configuration
\* The catalog file: capability name -> declared fields, in file order.
CapOrder == <<"code", "docs", "legacy">>

CapNames == {CapOrder[i] : i \in 1..Len(CapOrder)}

Catalog ==
    [code |-> [enabled |-> TRUE,  type |-> "codanna",
               tools |-> <<"search_code", "find_symbol">>,
               lazy_load |-> FALSE,
               description |-> <<"C">>],
     docs |-> [type |-> "context7",
               tools |-> <<"disabled_tool", "find_symbol">>,
               description |-> <<"o", "C">>],
     legacy |-> [type |-> "legacy_rpc",
                 tools |-> <<"legacy_tool">>,
                 description |-> <<"c", "c">>]]

\* Strings that search_tools matches on are sequences of characters of a
\* small alphabet with one letter in both cases. Spelling: the characters of
\* a catalog tool name; a capability's description is spelled in the catalog.
Chars == {"c", "C", "o"}

Spelling(tool) ==
    CASE tool = "search_code"   -> <<"c", "o">>
      [] tool = "find_symbol"   -> <<"o">>
      [] tool = "disabled_tool" -> <<"o", "o">>
      [] OTHER                  -> <<>>

\* Longest query handed to search_tools.
MaxQuery == 2
\* Largest and smallest max_results handed to search_tools.
MaxResults == 2
MinResults == -1

Queries == UNION {[1..n -> Chars] : n \in 0..MaxQuery}
ResultLimits == MinResults..MaxResults

\* The names enable_capability / disable_capability are called with: the
\* registered ones and one the registry does not hold.
AdminNames == {"code", "docs", "legacy", "ghost"}

\* A dispatch that has a handler class for every type of the catalog.
SupportedTypesOpen ==
    {"codanna", "context7", "playwright", "claude-mem", "graphiti_ladybug",
     "legacy_rpc"}

\* The types ToolCapability.load dispatches on.
SupportedTypes ==
    {"codanna", "context7", "playwright", "claude-mem", "graphiti_ladybug"}

\* The tool names a handler class has a schema for (get_tool_schema raises
\* ValueError for any other name).
HandlerTools(type) ==
    CASE type = "codanna"  -> {"search_code", "get_call_graph", "find_symbol",
                               "find_implementations"}
      [] type = "context7" -> {"resolve_library_id", "get_library_docs"}
      [] OTHER             -> {}

\* The tool names requests are drawn from: a catalog tool its handler has a
\* schema for, one its handler does not know, one of the capability whose
\* type load() has no handler class for, and one that no capability owns.
ToolUniverse == {"search_code", "disabled_tool", "legacy_tool", "unknown_tool"}

BatchInputs == UNION {[1..n -> ToolUniverse] : n \in 0..MaxBatch}

\* --------------------------------------------------------------- constants
None == 0          \* Python's None for a handler reference
NoCap == "-"       \* _find_capability_for_tool returning None
Pending == -1      \* load() has not returned in this request
NoObj == <<NoCap, 0>>

Gens == 0..MaxReloads
\* A ToolCapability object: the record built for a name by the gen-th run of
\* _load_catalog.
Objs == CapNames \X Gens

VARIABLES
    reg,       \* registry.capabilities: name -> generation of the object it holds
    cap,       \* per ToolCapability object: enabled, _loaded, _handler
    handlers,  \* every handler instance constructed so far, by id 1..Len
    task,      \* per coroutine: where it is suspended and its locals
    config     \* registry.config: the document the catalog was last parsed to

vars == <<reg, cap, handlers, task, config>>

CapType(c) == Catalog[c].type
CapTools(c) == Catalog[c].tools
CapDescription(c) == Catalog[c].description

InSeq(x, s) == \E i \in 1..Len(s) : s[i] = x

\* dict.get(key, default) on a config entry.
ConfigGet(cfg, key, default) == IF key \in DOMAIN cfg THEN cfg[key] ELSE default

\* A constructor whose enabled flag defaults to true.
ToolCapabilityInitEnabled(cfg) ==
    [enabled |-> ConfigGet(cfg, "enabled", TRUE), type |-> cfg.type,
     tools |-> ConfigGet(cfg, "tools", <<>>),
     lazy_load |-> ConfigGet(cfg, "lazy_load", TRUE),
     loaded |-> FALSE, handler |-> None]

\* ToolCapability.__init__(name, config), lines 38-50: the fields of the new
\* object; lazy_load is stored and nothing is loaded whatever it says.
ToolCapabilityInit(cfg) ==
    [enabled |-> ConfigGet(cfg, "enabled", FALSE), type |-> cfg.type,
     tools |-> ConfigGet(cfg, "tools", <<>>),
     lazy_load |-> ConfigGet(cfg, "lazy_load", TRUE),
     loaded |-> FALSE, handler |-> None]

\* The mutable fields of the object ToolCapability.__init__ builds for
\* catalog entry c.
NewCapability(c) ==
    LET new == ToolCapabilityInit(Catalog[c])
    IN  [enabled |-> new.enabled, loaded |-> new.loaded, handler |-> new.handler]

\* An object no _load_catalog run has built yet.
Unbuilt == [enabled |-> FALSE, loaded |-> FALSE, handler |-> None]

\* A coroutine's locals: the operation it runs, describe_tools' tool_names,
\* loop position and descriptions, the capability object and handler of its
\* latest load(), the handler it awaits execute() on, how handler.execute()
\* ended, how the operation ended (what it returned or raised), the
\* operation's other argument (max_results of search_tools), and the list
\* the registry handed to the facade function that called it.
IdleTask ==
    [pc |-> "idle", op |-> "none", names |-> <<>>, idx |-> 1, out |-> <<>>,
     obj |-> NoObj, h |-> None, got |-> Pending, outcome |-> "none",
     hres |-> "none", arg |-> 0, raw |-> <<>>]

\* The slots of the concurrent requests, in the order they are taken.
TaskOrder == <<"T1", "T2">>

\* What the environment decides for one run of a coroutine between two
\* suspensions: whether the handler modules can be imported.
Envs == BOOLEAN

\* What yaml.safe_load hands back for a catalog file declaring the given
\* capabilities, and for an empty file (None).
ParsedCatalog(declares) == [dict |-> TRUE, declares |-> declares]
ParsedNothing == [dict |-> FALSE, declares |-> {}]

Init ==
    /\ reg = [c \in CapNames |-> 0]
    /\ cap = [o \in Objs |-> IF o[2] = 0 THEN NewCapability(o[1]) ELSE Unbuilt]
    /\ handlers = <<>>
    /\ task = [t \in Tasks |-> IdleTask]
    /\ config = ParsedCatalog(CapNames)

\* ------------------------------------------------------------ pure helpers
\* A lookup that falls back to the first capability of the catalog for a
\* name no tools list holds.
FindFromFallback(i, tool) ==
    IF \E k \in i..Len(CapOrder) : InSeq(tool, CapTools(CapOrder[k]))
    THEN CapOrder[CHOOSE k \in i..Len(CapOrder) :
                    /\ InSeq(tool, CapTools(CapOrder[k]))
                    /\ \A j \in i..(k - 1) : ~InSeq(tool, CapTools(CapOrder[j]))]
    ELSE CapOrder[1]

\* A lookup in which the last capability that lists the name wins.
FindFromLast(i, tool) ==
    IF \E k \in i..Len(CapOrder) : InSeq(tool, CapTools(CapOrder[k]))
    THEN CapOrder[CHOOSE k \in i..Len(CapOrder) :
                    /\ InSeq(tool, CapTools(CapOrder[k]))
                    /\ \A j \in (k + 1)..Len(CapOrder) : ~InSeq(tool, CapTools(CapOrder[j]))]
    ELSE NoCap

\* _find_capability_for_tool: the first capability, in insertion order, whose
\* tools list holds the name.
RECURSIVE FindFrom(_, _)
FindFrom(i, tool) ==
    IF i > Len(CapOrder) THEN NoCap
    ELSE IF InSeq(tool, CapTools(CapOrder[i])) THEN CapOrder[i]
    ELSE FindFrom(i + 1, tool)

FindCapabilityForTool(tool) == FindFrom(1, tool)

\* The entry describe_tools appends when load() or get_tool_schema raised.
ErrorEntry(name, e) == [name |-> name, err |-> e, h |-> None]

\* handler.get_tool_schema(name) as describe_tools sees it: the schema of a
\* tool the handler class knows, ValueError otherwise, and AttributeError
\* when load() handed back None. h: the instance that served the entry.
SchemaEntry(hs, h, name) ==
    IF h = None THEN ErrorEntry(name, "AttributeError")
    ELSE IF name \in HandlerTools(CapType(hs[h].obj[1]))
         THEN [name |-> name, err |-> "none", h |-> h]
         ELSE ErrorEntry(name, "ValueError")

\* A load() without its line 63: nothing is ever served from the cache.
IsCachedNever(capf, o) == FALSE

\* load(), line 63: the cached handler is returned only when both fields say so.
IsCached(capf, o) == capf[o].loaded /\ capf[o].handler # None

\* load(), lines 87-103: the new instance is stored in _handler at once.
StoreHandler(capf, o, h) == [capf EXCEPT ![o].handler = h]

\* load(), line 109, after initialize() returned.
MarkLoaded(capf, o) == [capf EXCEPT ![o].loaded = TRUE]

\* load(), lines 114-119: the except clauses log and raise; no field is reset.
OnLoadFailure(capf, o) == capf

\* An unload() that resets nothing.
UnloadKeeps(capf, o) == capf

\* unload(), lines 128-129.
Unload(capf, o) == [capf EXCEPT ![o].loaded = FALSE, ![o].handler = None]

\* The record of a freshly constructed handler instance. rivals: the other
\* instances of the same object whose initialize() is in flight right now.
NewHandler(hs, o) ==
    [obj |-> o, st |-> "initializing", cur |-> TRUE, ret |-> Pending,
     rivals |-> {k \in 1..Len(hs) :
                    hs[k].obj = o /\ hs[k].st = "initializing" /\ hs[k].cur}]

\* Constructing instance Len(hs)+1 tells its rivals about it.
AddHandler(hs, o) ==
    LET id == Len(hs) + 1
        nh == NewHandler(hs, o)
    IN  Append([k \in 1..Len(hs) |->
                  IF k \in nh.rivals
                  THEN [hs[k] EXCEPT !.rivals = @ \cup {id}] ELSE hs[k]], nh)

\* ------------------------------------------------- load(), up to its await
\* A run state: the capability objects, the handler instances and the
\* running coroutine's locals.
RunState(capf, hs, tk) == [cap |-> capf, handlers |-> hs, tk |-> tk]

\* load() on object o from its first line to its return, raise or suspension
\* in `await self._handler.initialize()`.
\*   cached:  line 64 returned handler
\*   raise:   the except clauses raised err (ValueError of an unknown type is
\*            wrapped in RuntimeError, ImportError is re-raised as it is)
\*   suspend: a new instance was constructed and stored; the coroutine waits
\*   capped:  the model's bound on handler instances is used up
LoadBegin(S, o, env) ==
    IF IsCached(S.cap, o)
    THEN [kind |-> "cached", handler |-> S.cap[o].handler, err |-> "none",
          S |-> [S EXCEPT !.tk.obj = o]]
    ELSE IF CapType(o[1]) \notin SupportedTypes
    THEN [kind |-> "raise", handler |-> None, err |-> "RuntimeError",
          S |-> [S EXCEPT !.cap = OnLoadFailure(S.cap, o), !.tk.obj = o]]
    ELSE IF ~env
    THEN [kind |-> "raise", handler |-> None, err |-> "ImportError",
          S |-> [S EXCEPT !.cap = OnLoadFailure(S.cap, o), !.tk.obj = o]]
    ELSE IF Len(S.handlers) >= MaxHandlers
    THEN [kind |-> "capped", handler |-> None, err |-> "none", S |-> S]
    ELSE LET id == Len(S.handlers) + 1
         IN  [kind |-> "suspend", handler |-> id, err |-> "none",
              S |-> [S EXCEPT !.cap = StoreHandler(S.cap, o, id),
                              !.handlers = AddHandler(S.handlers, o),
                              !.tk.pc = "init", !.tk.obj = o, !.tk.h = id]]

\* --------------------------------------------------------- describe_tools
\* A describe_tools that appends a "not found" entry for a name no capability
\* owns.
DescribeUnknownAsEntry(S) ==
    [S EXCEPT !.tk.out = Append(@, [name |-> S.tk.names[S.tk.idx],
                                    err |-> "NotFound", h |-> None]),
              !.tk.idx = @ + 1]

\* A describe_tools whose loop ends at the first entry that carries an error.
DescribeAppendAborting(S, entry) ==
    [S EXCEPT !.tk.out = Append(@, entry),
              !.tk.idx = IF entry.err = "none" THEN @ + 1 ELSE Len(S.tk.names) + 1]

\* Line 260-264: a name no capability owns is logged and skipped.
DescribeUnknown(S) == [S EXCEPT !.tk.idx = @ + 1]

\* Lines 270 and 273-278: one entry is appended and the loop goes on.
DescribeAppend(S, entry) ==
    [S EXCEPT !.tk.out = Append(@, entry), !.tk.idx = @ + 1]

\* Line 281.
DescribeReturn(S) == [S EXCEPT !.tk.pc = "done", !.tk.outcome = "returned"]

\* The loop of describe_tools from tool_names[idx] on, as far as it runs
\* without suspending: to its return, or into the initialize() of a load().
RECURSIVE RunDescribe(_, _, _)
RunDescribe(S, regf, env) ==
    IF S.tk.idx > Len(S.tk.names) THEN DescribeReturn(S)
    ELSE
      LET name == S.tk.names[S.tk.idx]
          c == FindCapabilityForTool(name)
      IN  IF c = NoCap THEN RunDescribe(DescribeUnknown(S), regf, env)
          ELSE
            LET r == LoadBegin(S, <<c, regf[c]>>, env)
            IN  CASE r.kind = "cached" ->
                       RunDescribe(
                         DescribeAppend(r.S, SchemaEntry(r.S.handlers, r.handler, name)),
                         regf, env)
                  [] r.kind = "raise" ->
                       RunDescribe(DescribeAppend(r.S, ErrorEntry(name, r.err)),
                                   regf, env)
                  [] r.kind = "suspend" -> r.S
                  [] OTHER -> [S EXCEPT !.tk.pc = "capped"]

\* A run takes effect; one that ended on the model's cap on handler
\* instances is not taken.
Commit(t, S) ==
    /\ S.tk.pc # "capped"
    /\ cap' = S.cap
    /\ handlers' = S.handlers
    /\ task' = [task EXCEPT ![t] = S.tk]
    /\ UNCHANGED <<reg, config>>

\* A coroutine that ended hands its result to its caller before anything else
\* runs: no step is taken while one is at "done" but Collect.
Settled == \A t \in Tasks : task[t].pc # "done"

\* A new request takes the first free slot.
Free(t) ==
    /\ Settled
    /\ task[t].pc = "idle"
    /\ \A i \in 1..Len(TaskOrder) :
          TaskOrder[i] = t => \A j \in 1..(i - 1) : task[TaskOrder[j]].pc # "idle"

\* The caller has the operation's result or exception; the coroutine is gone.
Collect(t) ==
    /\ task[t].pc = "done"
    /\ task' = [task EXCEPT ![t] = IdleTask]
    /\ UNCHANGED <<reg, cap, handlers, config>>

\* A coroutine calls registry.describe_tools(names).
StartDescribe(t, names, env) ==
    /\ Free(t)
    /\ Commit(t, RunDescribe(
                    RunState(cap, handlers,
                             [IdleTask EXCEPT !.pc = "describe", !.op = "describe",
                                              !.names = names]),
                    reg, env))

\* ----------------------------------------------------------- execute_tool
\* Lines 314-320 with the handler load() returned: execute() is awaited on
\* it; on None the attribute lookup raises inside the try and is re-raised.
ExecuteWith(S, handler) ==
    IF handler = None
    THEN [S EXCEPT !.tk.pc = "done", !.tk.got = handler,
                   !.tk.outcome = "AttributeError"]
    ELSE [S EXCEPT !.tk.pc = "exec", !.tk.got = handler]

\* An exception leaves execute_tool.
ExecuteRaise(S, e) == [S EXCEPT !.tk.pc = "done", !.tk.outcome = e]

\* An execute_tool that runs an unowned name on the first capability of the
\* catalog.
RunExecuteFallback(S, regf, env) ==
    LET c == FindFromFallback(1, S.tk.names[1])
        r == LoadBegin(S, <<c, regf[c]>>, env)
    IN  CASE r.kind = "cached" -> ExecuteWith(r.S, r.handler)
          [] r.kind = "raise" -> ExecuteRaise(r.S, r.err)
          [] r.kind = "suspend" -> r.S
          [] OTHER -> [S EXCEPT !.tk.pc = "capped"]

\* execute_tool from its first line to its first suspension.
RunExecute(S, regf, env) ==
    LET c == FindCapabilityForTool(S.tk.names[1])
    IN  IF c = NoCap THEN ExecuteRaise(S, "ValueError")
        ELSE LET r == LoadBegin(S, <<c, regf[c]>>, env)
             IN  CASE r.kind = "cached" -> ExecuteWith(r.S, r.handler)
                   [] r.kind = "raise" -> ExecuteRaise(r.S, r.err)
                   [] r.kind = "suspend" -> r.S
                   [] OTHER -> [S EXCEPT !.tk.pc = "capped"]

\* An execute_tool whose except clause returns a result instead of raising.
ExecuteEndsSwallowing(S, ok) ==
    [S EXCEPT !.tk.pc = "done",
              !.tk.hres = IF ok THEN "returned" ELSE "raised",
              !.tk.outcome = "result"]

\* Lines 314-320 once handler.execute() ended: its result is returned, its
\* exception is logged and raised again.
ExecuteEnds(S, ok) ==
    [S EXCEPT !.tk.pc = "done",
              !.tk.hres = IF ok THEN "returned" ELSE "raised",
              !.tk.outcome = IF ok THEN "result" ELSE "ExecutionError"]

\* A coroutine calls registry.execute_tool(tool, arguments).
StartExecute(t, tool, env) ==
    /\ Free(t)
    /\ Commit(t, RunExecute(
                    RunState(cap, handlers,
                             [IdleTask EXCEPT !.pc = "execute", !.op = "execute",
                                              !.names = <<tool>>]),
                    reg, env))

\* handler.execute() returns or raises; execute_tool hands either on.
ExecReturn(t, ok) ==
    /\ Settled
    /\ task[t].pc = "exec"
    /\ Commit(t, ExecuteEnds(RunState(cap, handlers, task[t]), ok))

\* The instances unload() of object o cuts loose: they belong to a load
\* cycle that is over. "dropped" is the instance the object was loaded with,
\* "retired" any other; nothing more is recorded about them.
Retired(o, st) ==
    [obj |-> o, st |-> st, cur |-> FALSE, ret |-> Pending, rivals |-> {}]

CloseCycle(hs, capf, o) ==
    [k \in 1..Len(hs) |->
        IF hs[k].obj # o THEN hs[k]
        ELSE IF hs[k].st = "dropped" \/ (capf[o].loaded /\ capf[o].handler = k)
             THEN Retired(o, "dropped")
             ELSE Retired(o, "retired")]

\* initialize() of instance h ended: the instance is ready and its load()
\* returns ret, or it failed and its load() raises.
InitEnded(hs, h, st, ret) ==
    IF hs[h].cur THEN [hs EXCEPT ![h].st = st, ![h].ret = ret] ELSE hs

\* ------------------------------------------- load(), after its await
\* initialize() returned: line 109 sets _loaded, line 112 returns whatever
\* _handler holds now; the caller goes on with it.
InitSucceeds(t, env) ==
    LET tk == task[t]
        capf == MarkLoaded(cap, tk.obj)
        ret == capf[tk.obj].handler
        hs == InitEnded(handlers, tk.h, "ready", ret)
        S == RunState(capf, hs, tk)
    IN  /\ Settled
        /\ tk.pc = "init"
        /\ IF tk.op = "describe"
           THEN Commit(t, RunDescribe(
                            DescribeAppend([S EXCEPT !.tk.pc = "describe"],
                                           SchemaEntry(hs, ret, tk.names[tk.idx])),
                            reg, env))
           ELSE Commit(t, ExecuteWith(S, ret))

\* initialize() raised: lines 117-119 raise RuntimeError from load().
InitFails(t, env) ==
    LET tk == task[t]
        capf == OnLoadFailure(cap, tk.obj)
        hs == InitEnded(handlers, tk.h, "failed", Pending)
        S == RunState(capf, hs, tk)
    IN  /\ Settled
        /\ tk.pc = "init"
        /\ IF tk.op = "describe"
           THEN Commit(t, RunDescribe(
                            DescribeAppend([S EXCEPT !.tk.pc = "describe"],
                                           ErrorEntry(tk.names[tk.idx], "RuntimeError")),
                            reg, env))
           ELSE Commit(t, ExecuteRaise(S, "RuntimeError"))

\* ------------------------------------------------- enable / disable / reload
\* enable_capability(name), lines 380-385, for a registered name.
EnableCapability(c) ==
    /\ Settled
    /\ cap' = [cap EXCEPT ![<<c, reg[c]>>].enabled = TRUE]
    /\ UNCHANGED <<reg, handlers, task, config>>

\* disable_capability(name), lines 399-405, for a registered name.
DisableCapability(c) ==
    LET o == <<c, reg[c]>>
    IN  /\ Settled
        /\ cap' = Unload([cap EXCEPT ![o].enabled = FALSE], o)
        /\ handlers' = CloseCycle(handlers, cap, o)
        /\ UNCHANGED <<reg, task, config>>

\* What the catalog file can hold when it is read again: the capabilities it
\* still declares (each with the fields it was first declared with): the
\* file as it was, and the file with one capability dropped.
CatalogFiles == {CapNames, CapNames \ {"docs"}}

\* reload_catalog() reading a catalog that declares the names in file:
\* _load_catalog builds a new object for every name of the file and stores
\* it under that name. The dict is not cleared first, so a name the file no
\* longer declares keeps its object; replaced objects stay with the
\* coroutines that hold them.
ReloadCatalog(file) ==
    /\ Settled
    /\ \A c \in file : reg[c] < MaxReloads
    /\ reg' = [c \in CapNames |-> IF c \in file THEN reg[c] + 1 ELSE reg[c]]
    /\ cap' = [o \in Objs |->
                 IF o[1] \in file /\ o[2] = reg[o[1]] + 1
                 THEN NewCapability(o[1]) ELSE cap[o]]
    /\ config' = ParsedCatalog(file)
    /\ UNCHANGED <<handlers, task>>

\* The steps of the requests in the slots TS.
RequestStep(TS) ==
    \/ \E t \in TS, names \in BatchInputs, env \in Envs :
          StartDescribe(t, names, env)
    \/ \E t \in TS, tool \in ToolUniverse, env \in Envs :
          StartExecute(t, tool, env)
    \/ \E t \in TS, env \in Envs : InitSucceeds(t, env)
    \/ \E t \in TS, env \in Envs : InitFails(t, env)
    \/ \E t \in TS, ok \in BOOLEAN : ExecReturn(t, ok)
    \/ \E t \in TS : Collect(t)

\* enable_capability / disable_capability requests; they never suspend.
AdminStep ==
    \/ \E c \in CapNames : EnableCapability(c)
    \/ \E c \in CapNames : DisableCapability(c)

Next == RequestStep(Tasks) \/ AdminStep

\* The registry under concurrent describe_tools / execute_tool requests and
\* runtime enable / disable.
Spec == Init /\ [][Next]_vars

\* One call at a time: a call is made only after the one before it ended.
Quiet == \A t \in Tasks : task[t].pc = "idle"

NextSeq == RequestStep({TaskOrder[1]}) \/ (Quiet /\ AdminStep)

SpecSeq == Init /\ [][NextSeq]_vars

\* One client coroutine in describe_tools / execute_tool, with enable,
\* disable and reload_catalog() calls before, between and during its
\* suspensions.
NextReload ==
    \/ RequestStep({TaskOrder[1]})
    \/ AdminStep
    \/ \E file \in CatalogFiles : ReloadCatalog(file)

SpecReload == Init /\ [][NextReload]_vars

\* ------------------------------------------------------------ search_tools
\* A lower() that changes nothing.
LowerIdentity(ch) == ch

\* str.lower() on one character.
Lower(ch) == CASE ch = "C" -> "c" [] OTHER -> ch

LowerSeq(str) == [i \in 1..Len(str) |-> Lower(str[i])]

\* Python's `sub in str` on strings.
Contains(sub, str) ==
    \E i \in 0..(Len(str) - Len(sub)) : SubSeq(str, i + 1, i + Len(sub)) = sub

\* Lines 218-225: the lowered query is in the lowered tool name or in the
\* lowered description of the capability.
Matches(q, c, tool) ==
    \/ Contains(LowerSeq(q), LowerSeq(Spelling(tool)))
    \/ Contains(LowerSeq(q), LowerSeq(CapDescription(c)))

\* A table lookup that hands back the tool name for a tool it does not hold.
ShortDescriptionEcho(tool) ==
    CASE tool = "search_code" -> "Search codebase semantically"
      [] tool = "find_symbol" -> "Find symbol definition (sub-10ms)"
      [] OTHER -> tool

\* _get_short_description(tool_name), lines 336-365: the entry of the fixed
\* table, "No description available" for a name the table does not hold.
ShortDescription(tool) ==
    CASE tool = "search_code" -> "Search codebase semantically"
      [] tool = "get_call_graph" -> "Get function call relationships"
      [] tool = "find_symbol" -> "Find symbol definition (sub-10ms)"
      [] tool = "find_implementations" -> "Find implementations of interface/class"
      [] tool = "resolve_library_id" -> "Resolve library name to Context7 ID"
      [] tool = "get_library_docs" -> "Fetch up-to-date library documentation"
      [] tool = "playwright_navigate" -> "Navigate browser to URL"
      [] tool = "playwright_screenshot" -> "Take screenshot of page"
      [] tool = "playwright_click" -> "Click element on page"
      [] tool = "playwright_fill" -> "Fill input field"
      [] tool = "playwright_select" -> "Select dropdown option"
      [] tool = "playwright_evaluate" -> "Execute JavaScript in browser"
      [] tool = "playwright_get_text" -> "Get text content of element"
      [] tool = "playwright_hover" -> "Hover over element"
      [] tool = "mem_search" -> "Search past session observations"
      [] tool = "mem_get_observation" -> "Get specific observation by ID"
      [] tool = "mem_recent_context" -> "Get recent session context"
      [] tool = "mem_timeline" -> "Get timeline around observation"
      [] tool = "store_insight" -> "Store cross-session knowledge"
      [] tool = "search_insights" -> "Search past insights & decisions"
      [] tool = "query_graph" -> "Query knowledge graph with Cypher"
      [] tool = "add_episode" -> "Add episode to knowledge graph"
      [] OTHER -> "No description available"

\* Lines 220-233: the previews of capability c's matching tools from the j-th
\* tool on, in the order of its tools list.
RECURSIVE ScanTools(_, _, _)
ScanTools(c, j, q) ==
    IF j > Len(CapTools(c)) THEN <<>>
    ELSE (IF Matches(q, c, CapTools(c)[j])
          THEN <<[name |-> CapTools(c)[j], capability |-> c,
                  description |-> ShortDescription(CapTools(c)[j]),
                  tokens_estimate |-> 200]>>
          ELSE <<>>)
         \o ScanTools(c, j + 1, q)

\* A scan that does not look at the enabled flag.
SkippedNever(capf, o) == FALSE

\* Lines 214-215: a capability that is not enabled is skipped.
Skipped(capf, o) == ~capf[o].enabled

\* Lines 213-233: the loop over the registry's capabilities from the i-th on.
RECURSIVE ScanCaps(_, _, _, _)
ScanCaps(capf, regf, i, q) ==
    IF i > Len(CapOrder) THEN <<>>
    ELSE (IF Skipped(capf, <<CapOrder[i], regf[CapOrder[i]]>>) THEN <<>>
          ELSE ScanTools(CapOrder[i], 1, q))
         \o ScanCaps(capf, regf, i + 1, q)

\* Line 236: Python's list[:n]; a negative n counts from the end.
SlicePrefix(list, n) ==
    IF n >= 0
    THEN SubSeq(list, 1, IF n < Len(list) THEN n ELSE Len(list))
    ELSE SubSeq(list, 1, IF Len(list) + n > 0 THEN Len(list) + n ELSE 0)

\* search_tools(query, max_results), lines 209-238.
SearchTools(capf, regf, q, max) == SlicePrefix(ScanCaps(capf, regf, 1, q), max)

\* A search that marks every capability it found a tool of as loaded.
RunSearchLoading(S, regf, q, max) ==
    LET found == SearchTools(S.cap, regf, q, max)
    IN  [S EXCEPT !.tk.pc = "done", !.tk.outcome = "returned", !.tk.out = found,
                  !.cap = [o \in DOMAIN S.cap |->
                             IF \E i \in 1..Len(found) :
                                   o = <<found[i].capability, regf[found[i].capability]>>
                             THEN [S.cap[o] EXCEPT !.loaded = TRUE] ELSE S.cap[o]]]

\* The whole of search_tools: it has no await and assigns no field.
RunSearch(S, regf, q, max) ==
    [S EXCEPT !.tk.pc = "done", !.tk.outcome = "returned",
              !.tk.out = SearchTools(S.cap, regf, q, max)]

\* A coroutine calls registry.search_tools(q, max).
StartSearch(t, q, max) ==
    /\ Free(t)
    /\ Commit(t, RunSearch(
                    RunState(cap, handlers,
                             [IdleTask EXCEPT !.pc = "search", !.op = "search",
                                              !.names = q, !.arg = max]),
                    reg, q, max))

\* A listing that takes a capability for loaded when it holds a handler.
GetAllCapabilitiesByHandler(capf, regf) ==
    [i \in 1..Len(CapOrder) |->
        LET c == CapOrder[i]
        IN  [name |-> c, enabled |-> capf[<<c, regf[c]>>].enabled,
             type |-> CapType(c), tools |-> CapTools(c),
             description |-> CapDescription(c),
             loaded |-> capf[<<c, regf[c]>>].handler # None]]

\* get_all_capabilities(), lines 418-428: one record per registered
\* capability, in insertion order.
GetAllCapabilities(capf, regf) ==
    [i \in 1..Len(CapOrder) |->
        LET c == CapOrder[i]
        IN  [name |-> c, enabled |-> capf[<<c, regf[c]>>].enabled,
             type |-> CapType(c), tools |-> CapTools(c),
             description |-> CapDescription(c),
             loaded |-> capf[<<c, regf[c]>>].loaded]]

\* ------------------------------- enable / disable calls with their results
\* An enable_capability that loads what it enables.
RunEnableEager(S, regf, name) ==
    IF name \notin CapNames
    THEN [S EXCEPT !.tk.pc = "done", !.tk.outcome = "error"]
    ELSE [S EXCEPT !.cap = MarkLoaded([S.cap EXCEPT ![<<name, regf[name]>>].enabled = TRUE],
                                      <<name, regf[name]>>),
                   !.tk.pc = "done", !.tk.outcome = "status"]

\* enable_capability(name), lines 380-385: an error record for a name the
\* registry does not hold, else the flag is set and a status record returned.
RunEnable(S, regf, name) ==
    IF name \notin CapNames
    THEN [S EXCEPT !.tk.pc = "done", !.tk.outcome = "error"]
    ELSE [S EXCEPT !.cap = [S.cap EXCEPT ![<<name, regf[name]>>].enabled = TRUE],
                   !.tk.pc = "done", !.tk.outcome = "status"]

\* A disable_capability that clears the flag and does not unload.
RunDisableFlagOnly(S, regf, name) ==
    IF name \notin CapNames
    THEN [S EXCEPT !.tk.pc = "done", !.tk.outcome = "error"]
    ELSE [S EXCEPT !.cap = [S.cap EXCEPT ![<<name, regf[name]>>].enabled = FALSE],
                   !.tk.pc = "done", !.tk.outcome = "status"]

\* disable_capability(name), lines 399-405.
RunDisable(S, regf, name) ==
    IF name \notin CapNames
    THEN [S EXCEPT !.tk.pc = "done", !.tk.outcome = "error"]
    ELSE LET o == <<name, regf[name]>>
         IN  [S EXCEPT !.cap = Unload([S.cap EXCEPT ![o].enabled = FALSE], o),
                       !.handlers = CloseCycle(S.handlers, S.cap, o),
                       !.tk.pc = "done", !.tk.outcome = "status"]

\* A coroutine calls registry.enable_capability(name).
CallEnable(t, name) ==
    /\ Free(t)
    /\ Commit(t, RunEnable(
                    RunState(cap, handlers,
                             [IdleTask EXCEPT !.pc = "enable", !.op = "enable",
                                              !.names = <<name>>]),
                    reg, name))

\* A coroutine calls registry.disable_capability(name).
CallDisable(t, name) ==
    /\ Free(t)
    /\ Commit(t, RunDisable(
                    RunState(cap, handlers,
                             [IdleTask EXCEPT !.pc = "disable", !.op = "disable",
                                              !.names = <<name>>]),
                    reg, name))

\* One client coroutine in describe_tools / execute_tool, with search_tools,
\* enable_capability and disable_capability calls made before, between and
\* during its suspensions; every call's result is kept for its caller.
NextClient ==
    \/ RequestStep({TaskOrder[1]})
    \/ \E t \in Tasks, q \in Queries, max \in ResultLimits : StartSearch(t, q, max)
    \/ \E t \in Tasks, name \in AdminNames : CallEnable(t, name)
    \/ \E t \in Tasks, name \in AdminNames : CallDisable(t, name)
    \/ \E t \in Tasks : Collect(t)

SpecClient == Init /\ [][NextClient]_vars

\* ------------------------------------------------- the server's call_tool
\* get_enabled_capabilities(), line 409: the names of the enabled
\* capabilities, in the registry's order.
GetEnabledCapabilities(capf, regf) ==
    LET IsEnabled(c) == capf[<<c, regf[c]>>].enabled
    IN  SelectSeq(CapOrder, IsEnabled)

\* A coroutine calls registry.get_enabled_capabilities().
CallGetEnabled(t) ==
    /\ Free(t)
    /\ Commit(t, RunState(cap, handlers,
                          [IdleTask EXCEPT !.pc = "done", !.op = "get_enabled",
                                           !.out = GetEnabledCapabilities(cap, reg),
                                           !.outcome = "returned"]))

\* A coroutine calls registry.get_all_capabilities().
CallGetAll(t) ==
    /\ Free(t)
    /\ Commit(t, RunState(cap, handlers,
                          [IdleTask EXCEPT !.pc = "done", !.op = "get_all",
                                           !.out = GetAllCapabilities(cap, reg),
                                           !.outcome = "returned"]))

\* The names _find_capability_for_tool is asked about: the request names and
\* one that two capabilities list.
FindInputs == ToolUniverse \cup {"find_symbol"}

\* A caller asks registry._find_capability_for_tool(tool); outcome holds the
\* name of the capability returned.
CallFind(t, tool) ==
    /\ Free(t)
    /\ Commit(t, RunState(cap, handlers,
                          [IdleTask EXCEPT !.pc = "done", !.op = "find",
                                           !.names = <<tool>>,
                                           !.outcome = FindCapabilityForTool(tool)]))

\* call_tool with a name it has no route for, server.py line 196: the
\* registry is not called.
CallUnknown(t) ==
    /\ Free(t)
    /\ Commit(t, RunState(cap, handlers,
                          [IdleTask EXCEPT !.pc = "done", !.op = "unknown_rpc",
                                           !.outcome = "UnknownTool"]))

\* A call_tool that lets the exceptions of execute_tool through.
ServerResponseRaising(tk) ==
    CASE tk.op = "unknown_rpc" -> "error"
      [] tk.op = "execute" -> IF tk.outcome = "result" THEN "ok" ELSE "raised"
      [] OTHER -> "ok"

\* The kind of response call_tool (server.py lines 176-201) sends for an
\* operation that ended as tk says: an "Error ..." text for a name without a
\* route and for an exception of execute_tool (lines 265-281); the handlers
\* of enable_capability and disable_capability (305-330) do not look at the
\* record the registry returned and send the confirmation; describe_tools,
\* search_tools and list_capabilities send what the registry returned.
ServerResponse(tk) ==
    CASE tk.op = "unknown_rpc" -> "error"
      [] tk.op = "execute" -> IF tk.outcome = "result" THEN "ok" ELSE "error"
      [] OTHER -> "ok"

\* The server serving one call_tool request at a time.
NextServer ==
    \/ RequestStep({TaskOrder[1]})
    \/ \E name \in AdminNames : CallEnable(TaskOrder[1], name)
    \/ \E name \in AdminNames : CallDisable(TaskOrder[1], name)
    \/ CallGetEnabled(TaskOrder[1])
    \/ CallGetAll(TaskOrder[1])
    \/ \E tool \in FindInputs : CallFind(TaskOrder[1], tool)
    \/ CallUnknown(TaskOrder[1])

SpecServer == Init /\ [][NextServer]_vars

\* ------------------------------------------------------------ construction
\* Config entries ToolCapability is constructed from: type is required, the
\* other fields may be left out.
MakeConfig(ty, en, tl, lz) ==
    ("type" :> ty)
    @@ (IF en = "omitted" THEN [k \in {} |-> TRUE] ELSE ("enabled" :> (en = "true")))
    @@ (IF tl = "omitted" THEN [k \in {} |-> TRUE]
        ELSE ("tools" :> (IF tl = "one" THEN <<"test_tool_1">> ELSE <<>>)))
    @@ (IF lz = "omitted" THEN [k \in {} |-> TRUE] ELSE ("lazy_load" :> (lz = "true")))

ConfigInputs ==
    {MakeConfig(ty, en, tl, lz) :
        ty \in SupportedTypes \cup {"test"},
        en \in {"omitted", "true", "false"},
        tl \in {"omitted", "none", "one"},
        lz \in {"omitted", "true", "false"}}

\* A caller constructs ToolCapability(name, cfg) and looks at its fields.
ConstructCapability(t, cfg) ==
    /\ Free(t)
    /\ Commit(t, RunState(cap, handlers,
                          [IdleTask EXCEPT !.pc = "done", !.op = "new_capability",
                                           !.names = <<cfg>>,
                                           !.out = <<ToolCapabilityInit(cfg)>>,
                                           !.outcome = "constructed"]))

\* The catalog sources a registry is constructed from: a path that exists or
\* not, and the capabilities the file declares when it exists.
Sources == [exists : BOOLEAN, declares : CatalogFiles]

\* A _load_catalog that takes a missing file for an empty catalog.
LoadCatalogLenient(source) ==
    IF ~source.exists THEN [err |-> "none", built |-> <<>>]
    ELSE [err |-> "none",
          built |-> LET Declared(c) == c \in source.declares
                        names == SelectSeq(CapOrder, Declared)
                    IN  [i \in 1..Len(names) |->
                            [name |-> names[i]] @@ ToolCapabilityInit(Catalog[names[i]])]]

\* _load_catalog, lines 172-184: FileNotFoundError for a path that does not
\* exist, else one ToolCapability per declared entry, in file order.
LoadCatalog(source) ==
    IF ~source.exists THEN [err |-> "FileNotFoundError", built |-> <<>>]
    ELSE [err |-> "none",
          built |-> LET Declared(c) == c \in source.declares
                        names == SelectSeq(CapOrder, Declared)
                    IN  [i \in 1..Len(names) |->
                            [name |-> names[i]] @@ ToolCapabilityInit(Catalog[names[i]])]]

\* A caller constructs DynamicToolRegistry(source), lines 154-170: the
\* exception of _load_catalog leaves the constructor, else the caller has a
\* registry holding the records built.
ConstructRegistry(t, source) ==
    LET r == LoadCatalog(source)
    IN  /\ Free(t)
        /\ Commit(t, RunState(cap, handlers,
                              [IdleTask EXCEPT !.pc = "done", !.op = "new_registry",
                                               !.names = <<source>>,
                                               !.out = r.built,
                                               !.outcome = IF r.err = "none"
                                                           THEN "constructed" ELSE r.err]))

\* Callers constructing capability objects and registries.
NextConstruct ==
    \/ \E t \in Tasks, cfg \in ConfigInputs : ConstructCapability(t, cfg)
    \/ \E t \in Tasks, source \in Sources : ConstructRegistry(t, source)
    \/ \E t \in Tasks : Collect(t)

SpecConstruct == Init /\ [][NextConstruct]_vars

\* ------------------------------------------- reload_catalog() with its result
\* What reload_catalog() finds at the catalog path: a file declaring some
\* capabilities ("ok"), no file ("missing"), a file that is not YAML
\* ("unparseable"), an empty file ("empty"), or a file one of whose entries
\* (bad) has no type field ("bad_entry"). Entries come in the catalog's order.
ReloadSources ==
    {[kind |-> "ok", declares |-> f, bad |-> NoCap] : f \in CatalogFiles}
    \cup {[kind |-> k, declares |-> {}, bad |-> NoCap] :
             k \in {"missing", "unparseable", "empty"}}
    \cup UNION {{[kind |-> "bad_entry", declares |-> f, bad |-> b] : b \in f} :
                 f \in CatalogFiles}

\* Lines 181-182: the entries a ToolCapability is built and stored for before
\* the loop ends or ToolCapability.__init__ raises KeyError at line 41.
Rebuilt(source) ==
    CASE source.kind = "ok" -> source.declares
      [] source.kind = "bad_entry" ->
           {c \in source.declares :
               \E i, j \in 1..Len(CapOrder) :
                  CapOrder[i] = c /\ CapOrder[j] = source.bad /\ i < j}
      [] OTHER -> {}

\* Lines 174-182: what leaves _load_catalog. The path check raises
\* FileNotFoundError; yaml.safe_load raises YAMLError before line 178
\* assigns; for an empty file it returns None, which line 178 stores and
\* line 181 fails on.
ReloadOutcome(source) ==
    CASE source.kind = "ok" -> "returned"
      [] source.kind = "missing" -> "FileNotFoundError"
      [] source.kind = "unparseable" -> "YAMLError"
      [] source.kind = "empty" -> "AttributeError"
      [] OTHER -> "KeyError"

\* Line 178: self.config after the call.
ReloadConfig(source, old) ==
    CASE source.kind \in {"ok", "bad_entry"} -> ParsedCatalog(source.declares)
      [] source.kind = "empty" -> ParsedNothing
      [] OTHER -> old

\* A caller calls registry.reload_catalog(), lines 434-437, and gets its
\* return or its exception.
CallReload(t, source) ==
    /\ Free(t)
    /\ \A c \in Rebuilt(source) : reg[c] < MaxReloads
    /\ reg' = [c \in CapNames |-> IF c \in Rebuilt(source) THEN reg[c] + 1 ELSE reg[c]]
    /\ cap' = [o \in Objs |->
                 IF o[1] \in Rebuilt(source) /\ o[2] = reg[o[1]] + 1
                 THEN NewCapability(o[1]) ELSE cap[o]]
    /\ config' = ReloadConfig(source, config)
    /\ task' = [task EXCEPT ![t] = [IdleTask EXCEPT !.pc = "done", !.op = "reload",
                                                    !.names = <<source>>,
                                                    !.outcome = ReloadOutcome(source)]]
    /\ UNCHANGED handlers

\* One caller at a time: describe_tools / execute_tool requests and
\* reload_catalog() calls.
NextReloadCall ==
    \/ RequestStep({TaskOrder[1]})
    \/ \E source \in ReloadSources : CallReload(TaskOrder[1], source)

SpecReloadCall == Init /\ [][NextReloadCall]_vars

\* ------------------------------------- progressive_discovery.describe_tools
\* Lines 133-148 of progressive_discovery.py: an entry with an "error" key is
\* logged and skipped, any other becomes a ToolSchema built from its fields
\* (the model keeps its name).
RECURSIVE FacadeSchemas(_)
FacadeSchemas(entries) ==
    IF entries = <<>> THEN <<>>
    ELSE (IF Head(entries).err # "none" THEN <<>>
          ELSE <<[name |-> Head(entries).name]>>)
         \o FacadeSchemas(Tail(entries))

\* The describe_tools of the facade returns: registry.describe_tools (line
\* 131) has handed its list back to it (raw) and the caller gets the
\* ToolSchema list.
FacadeReturn(t) ==
    /\ task[t].pc = "done"
    /\ task[t].op = "describe"
    /\ task' = [task EXCEPT ![t] = [@ EXCEPT !.op = "facade_describe",
                                             !.raw = task[t].out,
                                             !.out = FacadeSchemas(task[t].out)]]
    /\ UNCHANGED <<reg, cap, handlers, config>>

\* One caller at a time, through the registry or through the facade.
NextFacade ==
    \/ RequestStep({TaskOrder[1]})
    \/ FacadeReturn(TaskOrder[1])

SpecFacade == Init /\ [][NextFacade]_vars

\* ------------------------------------------------------ estimate_token_cost
\* Largest num_previews and num_schemas handed to estimate_token_cost.
MaxPreviews == 10
MaxSchemas == 50

\* Line 230: the cost of loading every tool statically.
StaticBaseline == 10000

\* A rounding that cuts the digits after the first decimal.
RoundTenthsDown(num, den) == (10 * num) \div den

\* round(num / den, 1), line 239, in tenths: Python rounds the quotient to
\* the nearest tenth and a tie to the even one (the ties of 10000 / total
\* end in .25 or .75 and are exact in binary floating point).
RoundTenths(num, den) ==
    LET q == (10 * num) \div den
        r == (10 * num) % den
    IN  IF 2 * r > den \/ (2 * r = den /\ q % 2 = 1) THEN q + 1 ELSE q

\* An estimate that charges the execution overhead whether or not a tool ran.
EstimateTokenCostAlways(p, s, e) ==
    [preview_tokens |-> p * 5, schema_tokens |-> s * 200, execution_tokens |-> 50,
     total_tokens |-> p * 5 + s * 200 + 50,
     vs_static_loading |-> StaticBaseline,
     reduction_tenths |-> RoundTenths(StaticBaseline, p * 5 + s * 200 + 50)]

\* estimate_token_cost(num_previews, num_schemas, execution), lines 223-240;
\* reduction_tenths is reduction_factor counted in tenths.
EstimateTokenCost(p, s, e) ==
    LET preview_tokens == p * 5
        schema_tokens == s * 200
        execution_tokens == IF e THEN 50 ELSE 0
        total_tokens == preview_tokens + schema_tokens + execution_tokens
    IN  [preview_tokens |-> preview_tokens, schema_tokens |-> schema_tokens,
         execution_tokens |-> execution_tokens, total_tokens |-> total_tokens,
         vs_static_loading |-> StaticBaseline,
         reduction_tenths |-> IF total_tokens > 0
                              THEN RoundTenths(StaticBaseline, total_tokens)
                              ELSE 0]

\* A caller asks for an estimate.
CallEstimate(t, p, s, e) ==
    /\ Free(t)
    /\ Commit(t, RunState(cap, handlers,
                          [IdleTask EXCEPT !.pc = "done", !.op = "estimate",
                                           !.names = <<[previews |-> p, schemas |-> s,
                                                        execution |-> e]>>,
                                           !.out = <<EstimateTokenCost(p, s, e)>>,
                                           !.outcome = "returned"]))

\* Callers of the estimator.
NextEstimate ==
    \/ \E t \in Tasks, p \in 0..MaxPreviews, s \in 0..MaxSchemas, e \in BOOLEAN :
          CallEstimate(t, p, s, e)
    \/ \E t \in Tasks : Collect(t)

SpecEstimate == Init /\ [][NextEstimate]_vars

\* ================================================================== claims
CurObj(c) == <<c, reg[c]>>

Ids == 1..Len(handlers)

\* The instances of object o's open load cycle: constructed since its last
\* unload().
CycleOf(o) == {h \in Ids : handlers[h].obj = o /\ handlers[h].cur}

\* Some coroutine is suspended inside load() of object o.
InLoad(o) == \E t \in Tasks : task[t].pc = "init" /\ task[t].obj = o

Done(t, op) == task[t].pc = "done" /\ task[t].op = op

OutNames(t) == [i \in 1..Len(task[t].out) |-> task[t].out[i].name]

\* Some capability's tools list holds the name.
Owned(n) == \E c \in CapNames : InSeq(n, CapTools(c))

\* C1: in one load cycle of a capability at most one handler instance is
\* being initialized at a time, however the callers that found it unloaded
\* interleave.
C1_AtMostOnceInit ==
    \A c \in CapNames :
        Cardinality({h \in CycleOf(CurObj(c)) : handlers[h].st = "initializing"}) <= 1

\* C2: two load() calls that raced on the same capability in one load cycle
\* end alike: both raise, or both return the same handler instance.
C2_SharedOutcome ==
    \A h1 \in Ids : \A h2 \in handlers[h1].rivals :
        (handlers[h1].st \in {"ready", "failed"} /\ handlers[h2].st \in {"ready", "failed"})
            => /\ handlers[h1].st = handlers[h2].st
               /\ handlers[h1].ret = handlers[h2].ret

\* C3: whenever no load() of a capability is in flight, its handler reference
\* is non-null exactly when its loaded flag is set (the claim at its weakest:
\* the instants inside a load() are left out).
C3_HandlerIffLoaded ==
    \A c \in CapNames :
        ~InLoad(CurObj(c))
            => ((cap[CurObj(c)].handler # None) <=> cap[CurObj(c)].loaded)

\* C4: when execute_tool ends because load() raised, and no other load() of
\* that capability is in flight, the capability is unloaded and holds no
\* handler reference.
C4_FailedLoadLeavesUnloaded ==
    \A t \in Tasks :
        (/\ Done(t, "execute")
         /\ task[t].outcome \in {"RuntimeError", "ImportError"}
         /\ ~InLoad(task[t].obj))
            => /\ ~cap[task[t].obj].loaded
               /\ cap[task[t].obj].handler = None

\* C5: with one call at a time, a load cycle in which no initialize() failed
\* has at most one handler instance (initialize() ran once), the capability's
\* handler reference is that instance, and every result or running execute()
\* of the cycle comes from it.
C5_IdempotentLoad ==
    \A c \in CapNames :
        LET o == CurObj(c)
            cyc == CycleOf(o)
        IN  (\A h \in cyc : handlers[h].st # "failed")
                => /\ Cardinality(cyc) <= 1
                   /\ cap[o].handler # None => cap[o].handler \in cyc
                   /\ cap[o].loaded /\ cap[o].handler # None
                        => handlers[cap[o].handler].st = "ready"
                   /\ \A t \in Tasks :
                        /\ (task[t].pc = "exec" /\ handlers[task[t].got].obj = o
                            /\ handlers[task[t].got].cur)
                              => task[t].got = cap[o].handler
                        /\ Done(t, "describe")
                              => \A i \in 1..Len(task[t].out) :
                                    (task[t].out[i].h # None
                                     /\ handlers[task[t].out[i].h].cur
                                     /\ handlers[task[t].out[i].h].obj = o)
                                        => task[t].out[i].h = cap[o].handler

\* C5's case: one describe_tools call got two schemas of one capability from
\* the one instance that was ever constructed.
C5_Witness ==
    /\ Len(handlers) = 1
    /\ handlers[1].st = "ready"
    /\ \E t \in Tasks :
        /\ Done(t, "describe")
        /\ Len(task[t].out) = 2
        /\ task[t].out[1].h = 1 /\ task[t].out[2].h = 1

\* The handlers a step of coroutine t began to use: the one execute() is
\* awaited on, and those that served the entries the step appended.
StartedUsing(t) ==
    LET base == IF task[t].pc = "init" /\ task[t].op = "describe"
                THEN Len(task[t].out) ELSE 0
    IN  (IF task'[t].pc = "exec" /\ task[t].pc # "exec" THEN {task'[t].got} ELSE {})
        \cup {task'[t].out[i].h : i \in (base + 1)..Len(task'[t].out)}

\* C6: a handler instance that unload() cut loose is never the capability's
\* handler again, and no describe_tools or execute_tool step begins to use
\* one: after disable and enable the next call works on a new instance.
C6_FreshAfterDisable ==
    [][/\ \A c \in CapNames :
            cap'[CurObj(c)].handler # None => handlers'[cap'[CurObj(c)].handler].cur
       /\ \A t \in Tasks : \A h \in StartedUsing(t) \ {None} : handlers'[h].cur]_vars

\* C6's case: a capability that was loaded with one instance, then disabled
\* and enabled again, has a call running execute() on another instance.
C6_Witness ==
    \E c \in CapNames : \E h \in Ids : \E t \in Tasks :
        /\ handlers[h].obj = CurObj(c) /\ handlers[h].st = "dropped"
        /\ cap[CurObj(c)].enabled
        /\ task[t].pc = "exec" /\ task[t].got # h
        /\ handlers[task[t].got].obj = CurObj(c) /\ handlers[task[t].got].cur

\* C7: no handler instance is constructed for a capability whose enabled flag
\* is false (every instance built since the capability was last disabled
\* belongs to an enabled capability).
C7_EnabledGatesLoad ==
    \A h \in Ids : handlers[h].cur => cap[handlers[h].obj].enabled

\* C8 as stated: describe_tools returns one entry per requested name, in
\* input order.
C8_OneEntryPerName ==
    \A t \in Tasks : Done(t, "describe") => OutNames(t) = task[t].names

\* C8 amended: describe_tools returns one entry per requested name that some
\* capability owns, in input order.
C8_OneEntryPerOwnedName ==
    \A t \in Tasks :
        Done(t, "describe") => OutNames(t) = SelectSeq(task[t].names, Owned)

\* C8's case: a returned batch that held owned and unknown names.
C8_Witness ==
    \E t \in Tasks :
        /\ Done(t, "describe")
        /\ Len(task[t].out) = 1
        /\ Len(task[t].names) = 2

\* C9: no entry of describe_tools' result is for a name no capability owns,
\* and a batch of unknown names only returns the empty list without calling
\* load() at all.
C9_UnknownOmitted ==
    \A t \in Tasks :
        Done(t, "describe")
            => /\ \A i \in 1..Len(task[t].out) : Owned(task[t].out[i].name)
               /\ (\A i \in 1..Len(task[t].names) : ~Owned(task[t].names[i]))
                    => /\ task[t].out = <<>>
                       /\ task[t].outcome = "returned"
                       /\ task[t].obj = NoObj /\ task[t].h = None

\* C9's case: a returned batch of unknown names.
C9_Witness ==
    \E t \in Tasks :
        /\ Done(t, "describe")
        /\ Len(task[t].names) = 2
        /\ \A i \in 1..2 : ~Owned(task[t].names[i])

\* What describe_tools([n]) can return for an owned name n: the schema from a
\* handler instance of the owning capability when its handler class knows n,
\* or an entry with the name and the error of n's own load() or
\* get_tool_schema().
AloneEntries(n) ==
    LET c == FindCapabilityForTool(n)
    IN  {ErrorEntry(n, e) : e \in {"RuntimeError", "ImportError", "AttributeError"}}
        \cup (IF n \in HandlerTools(CapType(c))
              THEN {[name |-> n, err |-> "none", h |-> h] :
                        h \in {k \in Ids : handlers[k].obj[1] = c}}
              ELSE {ErrorEntry(n, "ValueError")})

\* C10: describe_tools never raises and never stops early: each owned name of
\* the batch has its entry, which is one the name could get alone, whatever
\* happened to the names before it.
C10_FailureIsolation ==
    \A t \in Tasks :
        Done(t, "describe")
            => /\ task[t].outcome = "returned"
               /\ Len(task[t].out) = Len(SelectSeq(task[t].names, Owned))
               /\ \A i \in 1..Len(task[t].out) :
                    task[t].out[i] \in AloneEntries(SelectSeq(task[t].names, Owned)[i])

\* C10's case: the first name's load() failed and the second name still got
\* its schema.
C10_Witness ==
    \E t \in Tasks :
        /\ Done(t, "describe")
        /\ Len(task[t].out) = 2
        /\ task[t].out[1].err # "none"
        /\ task[t].out[2].err = "none"

\* C11: execute_tool on a name no capability owns ends at once with the
\* not-found error (ValueError) and changes nothing in the registry: no
\* handler instance is constructed, no capability field and no registry entry
\* changes.
C11_UnknownExecuteFails ==
    [][\A t \in Tasks :
          (/\ task[t].pc = "idle"
           /\ task'[t].op = "execute"
           /\ ~Owned(task'[t].names[1]))
              => /\ task'[t].pc = "done"
                 /\ task'[t].outcome = "ValueError"
                 /\ task'[t].got = Pending
                 /\ cap' = cap /\ handlers' = handlers /\ reg' = reg]_vars

\* C11's case: an execute_tool call on an unowned name has ended, in a
\* registry that holds a loaded capability.
C11_Witness ==
    \E t \in Tasks :
        /\ Done(t, "execute")
        /\ ~Owned(task[t].names[1])
        /\ task[t].outcome = "ValueError"
        /\ \E c \in CapNames : cap[CurObj(c)].loaded

\* C12: execute_tool ends with the handler's error whenever handler.execute()
\* raised, returns the handler's result whenever it returned, and returns a
\* result in no other case.
C12_ExecuteFailurePropagates ==
    \A t \in Tasks :
        Done(t, "execute")
            => /\ task[t].hres = "raised" => task[t].outcome = "ExecutionError"
               /\ task[t].hres = "returned" => task[t].outcome = "result"
               /\ task[t].outcome = "result" => task[t].hres = "returned"

\* C12's case: an execute_tool call whose handler.execute() raised has ended.
C12_Witness ==
    \E t \in Tasks :
        /\ Done(t, "execute")
        /\ task[t].hres = "raised"
        /\ task[t].got # None /\ task[t].got # Pending

\* Every (tool, capability) pair of the registry, by capability insertion
\* order and then by tool declaration order.
RECURSIVE PairsFrom(_)
PairsFrom(i) ==
    IF i > Len(CapOrder) THEN <<>>
    ELSE [j \in 1..Len(CapTools(CapOrder[i])) |->
             [name |-> CapTools(CapOrder[i])[j], capability |-> CapOrder[i]]]
         \o PairsFrom(i + 1)

\* The (tool, capability) pairs of a list of previews.
PairsOf(list) ==
    [i \in 1..Len(list) |-> [name |-> list[i].name, capability |-> list[i].capability]]

\* The first n elements of a list (none for n <= 0).
FirstN(list, n) ==
    SubSeq(list, 1, IF n <= 0 THEN 0 ELSE IF n < Len(list) THEN n ELSE Len(list))

\* The reference result of searchTools(q, n) in the current state.
ReferenceSearch(q, n) ==
    LET Hit(p) ==
            /\ cap[CurObj(p.capability)].enabled
            /\ \/ Contains(LowerSeq(q), LowerSeq(Spelling(p.name)))
               \/ Contains(LowerSeq(q), LowerSeq(CapDescription(p.capability)))
    IN  FirstN(SelectSeq(PairsFrom(1), Hit), n)

\* C13: search_tools(query, max_results) returns the reference result: the
\* pairs of enabled capabilities that match, in capability and tool order,
\* cut to the first max_results.
C13_SearchEqualsReference ==
    \A t \in Tasks :
        Done(t, "search")
            => PairsOf(task[t].out) = ReferenceSearch(task[t].names, task[t].arg)

\* Two strings that differ in the case of their letters only.
CaseVariant(a, b) ==
    /\ Len(a) = Len(b)
    /\ \A i \in 1..Len(a) : a[i] = b[i] \/ {a[i], b[i]} = {"c", "C"}

\* C14: search_tools returns what it returns for any case variant of the
\* query, and for the empty query every tool of every enabled capability, up
\* to max_results.
C14_CaseInsensitive ==
    \A t \in Tasks :
        Done(t, "search")
            => /\ \A q \in Queries :
                     CaseVariant(q, task[t].names)
                        => SearchTools(cap, reg, q, task[t].arg) = task[t].out
               /\ (task[t].names = <<>> /\ task[t].arg >= 0)
                     => LET On(p) == cap[CurObj(p.capability)].enabled
                        IN  PairsOf(task[t].out)
                              = FirstN(SelectSeq(PairsFrom(1), On), task[t].arg)

\* C14's case: a query with an upper-case letter found a tool by its
\* lower-case name.
C14_Witness ==
    \E t \in Tasks :
        /\ Done(t, "search")
        /\ task[t].names = <<"C", "o">>
        /\ task[t].out # <<>>

\* C15: search_tools returns at most max_results entries, for every integer
\* max_results.
C15_MaxResultsRespected ==
    \A t \in Tasks : Done(t, "search") => Len(task[t].out) <= task[t].arg

\* C16: no search_tools result names a tool of a capability that is not
\* enabled; once disable_capability(name) returned, no query finds a tool of
\* that capability, and get_all_capabilities lists it with the name, type,
\* tools and description it had.
C16_SearchExcludesDisabled ==
    \A t \in Tasks :
        /\ Done(t, "search")
              => \A i \in 1..Len(task[t].out) :
                    cap[CurObj(task[t].out[i].capability)].enabled
        /\ (Done(t, "disable") /\ task[t].outcome = "status")
              => LET c == task[t].names[1]
                     all == GetAllCapabilities(cap, reg)
                 IN  /\ \A q \in Queries, n \in ResultLimits :
                            \A i \in 1..Len(SearchTools(cap, reg, q, n)) :
                                SearchTools(cap, reg, q, n)[i].capability # c
                     /\ \E i \in 1..Len(all) :
                            /\ all[i].name = c
                            /\ all[i].type = Catalog[c].type
                            /\ all[i].tools = Catalog[c].tools
                            /\ all[i].description = Catalog[c].description

\* C16's case: a search returned tools while a capability with a tool the
\* query matches is disabled.
C16_Witness ==
    \E t \in Tasks :
        /\ Done(t, "search")
        /\ task[t].out # <<>>
        /\ \E c \in CapNames :
              /\ ~cap[CurObj(c)].enabled
              /\ \E j \in 1..Len(CapTools(c)) : Matches(task[t].names, c, CapTools(c)[j])

\* C17: a search_tools call ends at once by returning a list, constructs no
\* handler instance and changes no capability's enabled flag, loaded flag or
\* handler reference.
C17_SearchIsPure ==
    [][\A t \in Tasks :
          (task[t].pc = "idle" /\ task'[t].op = "search")
              => /\ task'[t].pc = "done"
                 /\ task'[t].outcome = "returned"
                 /\ cap' = cap /\ handlers' = handlers /\ reg' = reg]_vars

\* C17's case: a search that matched nothing returned the empty list in a
\* registry that holds a loaded capability.
C17_Witness ==
    \E t \in Tasks :
        /\ Done(t, "search")
        /\ task[t].out = <<>>
        /\ task[t].arg > 0
        /\ \E c \in CapNames : cap[CurObj(c)].enabled /\ cap[CurObj(c)].loaded

\* C18: enable_capability(name) on a registered name returns a status and
\* sets that capability's enabled flag, leaving its loaded flag, its handler
\* reference and every other capability as they were; on any other name it
\* returns an error record and changes nothing.
C18_EnableOnlySetsFlag ==
    [][\A t \in Tasks :
          (task[t].pc = "idle" /\ task'[t].op = "enable")
              => LET name == task'[t].names[1]
                 IN  /\ task'[t].pc = "done"
                     /\ handlers' = handlers /\ reg' = reg
                     /\ IF name \in CapNames
                        THEN /\ task'[t].outcome = "status"
                             /\ cap' = [cap EXCEPT ![CurObj(name)].enabled = TRUE]
                        ELSE /\ task'[t].outcome = "error"
                             /\ cap' = cap]_vars

\* C18's case: enable_capability returned for a capability that is loaded
\* and was not enabled; it is enabled now and still holds its handler.
C18_Witness ==
    \E t \in Tasks :
        /\ Done(t, "enable")
        /\ task[t].outcome = "status"
        /\ task[t].names[1] = "docs"
        /\ cap[CurObj("docs")].enabled
        /\ cap[CurObj("docs")].loaded
        /\ cap[CurObj("docs")].handler # None

\* C19: disable_capability(name) on a registered name returns a status and
\* leaves that capability not enabled, not loaded and without a handler
\* reference, whatever it was before, and every other capability as it was;
\* on any other name it returns an error record and changes nothing.
C19_DisableUnloads ==
    [][\A t \in Tasks :
          (task[t].pc = "idle" /\ task'[t].op = "disable")
              => LET name == task'[t].names[1]
                 IN  /\ task'[t].pc = "done"
                     /\ reg' = reg
                     /\ IF name \in CapNames
                        THEN /\ task'[t].outcome = "status"
                             /\ cap'[CurObj(name)] =
                                   [enabled |-> FALSE, loaded |-> FALSE, handler |-> None]
                             /\ \A o \in Objs : o # CurObj(name) => cap'[o] = cap[o]
                        ELSE /\ task'[t].outcome = "error"
                             /\ cap' = cap /\ handlers' = handlers]_vars

\* C19's case: disable_capability returned for a capability that was loaded
\* with a handler.
C19_Witness ==
    \E t \in Tasks :
        /\ Done(t, "disable")
        /\ task[t].outcome = "status"
        /\ \E h \in Ids :
              /\ handlers[h].obj = CurObj(task[t].names[1])
              /\ handlers[h].st = "dropped"
        /\ ~cap[CurObj(task[t].names[1])].loaded

\* C20: right after reload_catalog() returned, every capability the registry
\* holds is not loaded and holds no handler reference.
C20_ReloadDiscardsLoaded ==
    [][reg' # reg
          => \A c \in CapNames :
                /\ ~cap'[<<c, reg'[c]>>].loaded
                /\ cap'[<<c, reg'[c]>>].handler = None]_vars

\* The names registry.capabilities holds: every name a catalog ever declared,
\* since _load_catalog adds and replaces entries and nothing deletes one.
Registered == CapNames

\* C21: right after reload_catalog() returned, the registry holds exactly the
\* names the catalog declares now (the ones whose records were just built),
\* and every capability's enabled flag is the catalog's.
C21_ReloadRebuilds ==
    [][reg' # reg
          => /\ Registered = {c \in CapNames : reg'[c] # reg[c]}
             /\ \A c \in Registered :
                    cap'[<<c, reg'[c]>>].enabled
                        = ("enabled" \in DOMAIN Catalog[c] /\ Catalog[c].enabled)]_vars

\* The handler instances cleanup() has been called on. unload() only resets
\* the two fields, _load_catalog only replaces records, and nothing else in
\* the registry calls cleanup(): there are none.
CleanedUp == {}

\* An instance whose initialize() completed and that no capability record of
\* the registry refers to.
Unreferenced(h) ==
    /\ handlers[h].st \in {"ready", "dropped"}
    /\ \A c \in CapNames : cap[CurObj(c)].handler # h

\* C22: every initialized handler instance the registry no longer refers to
\* has had cleanup() called on it.
C22_NoHandlerLeak == \A h \in Ids : Unreferenced(h) => h \in CleanedUp

C24_MissingCatalogFails ==
    \A t \in Tasks :
        (Done(t, "new_registry") /\ ~task[t].names[1].exists)
            => /\ task[t].outcome = "FileNotFoundError"
               /\ task[t].out = <<>>

\* C24's case: a registry constructor was called on a missing source.
C24_Witness ==
    \E t \in Tasks :
        /\ Done(t, "new_registry")
        /\ ~task[t].names[1].exists
        /\ task[t].names[1].declares # {}

\* The positions in the registry's order of the capabilities whose tools list
\* holds n.
Owners(n) == {i \in 1..Len(CapOrder) : InSeq(n, CapTools(CapOrder[i]))}

\* C25: _find_capability_for_tool(n) returns none when no capability lists
\* n, and otherwise the first capability in insertion order that lists it
\* (the only one when one does); that holds in every state the capabilities
\* are in, enabled or not, loaded or not, and the capability describe_tools
\* and execute_tool go on with is that one too.
C25_RoutingByToolsOnly ==
    \A t \in Tasks :
        /\ Done(t, "find")
              => LET n == task[t].names[1]
                 IN  /\ Owners(n) = {} => task[t].outcome = NoCap
                     /\ \A i \in Owners(n) :
                           (\A j \in Owners(n) : i <= j)
                              => task[t].outcome = CapOrder[i]
        /\ (task[t].op = "execute" /\ task[t].obj # NoObj)
              => \E i \in Owners(task[t].names[1]) :
                    /\ task[t].obj[1] = CapOrder[i]
                    /\ \A j \in Owners(task[t].names[1]) : i <= j

\* C25's case: a name that two capabilities list was looked up while the
\* first of them was disabled and not loaded and the second enabled, and the
\* first was returned.
C25_Witness ==
    \E t \in Tasks :
        /\ Done(t, "find")
        /\ Cardinality(Owners(task[t].names[1])) = 2
        /\ task[t].outcome = CapOrder[1]
        /\ ~cap[CurObj(CapOrder[1])].enabled
        /\ ~cap[CurObj(CapOrder[1])].loaded
        /\ cap[CurObj(CapOrder[2])].enabled

\* The position of capability c in the registry's order.
OrderIndex(c) == CHOOSE i \in 1..Len(CapOrder) : CapOrder[i] = c

\* C26: get_enabled_capabilities returns the names of the capabilities whose
\* enabled flag is set, each once and in insertion order; get_all_capabilities
\* returns one record per capability with its current enabled and loaded
\* values; neither call changes a capability, the registry's mapping or the
\* handler instances.
C26_ReadOnlyProjections ==
    [][\A t \in Tasks :
          (task[t].pc # "done" /\ task'[t].pc = "done"
             /\ task'[t].op \in {"get_enabled", "get_all"})
          => /\ cap' = cap /\ reg' = reg /\ handlers' = handlers
             /\ LET out == task'[t].out
                IN  IF task'[t].op = "get_enabled"
                    THEN /\ {out[i] : i \in 1..Len(out)}
                              = {c \in CapNames : cap[CurObj(c)].enabled}
                         /\ \A i, j \in 1..Len(out) :
                               i < j => OrderIndex(out[i]) < OrderIndex(out[j])
                    ELSE /\ Len(out) = Cardinality(CapNames)
                         /\ \A c \in CapNames :
                               \E i \in 1..Len(out) :
                                  /\ out[i].name = c
                                  /\ out[i].enabled = cap[CurObj(c)].enabled
                                  /\ out[i].loaded = cap[CurObj(c)].loaded]_vars

\* C26's case: the full listing was taken of a registry in which a capability
\* is disabled and not loaded but still holds the instance of a failed load,
\* and another capability is enabled.
C26_Witness ==
    \E t \in Tasks, c, d \in CapNames :
        /\ Done(t, "get_all")
        /\ ~cap[CurObj(c)].loaded /\ cap[CurObj(c)].handler # None
        /\ cap[CurObj(d)].enabled /\ ~cap[CurObj(c)].enabled
        /\ \E i \in 1..Len(task[t].out) :
              task[t].out[i].name = c /\ ~task[t].out[i].loaded

\* What a later request can observe of a capability: its flag, whether
\* load() would return without constructing, and the instance it would
\* return then.
Observable ==
    [c \in CapNames |->
        [enabled |-> cap[CurObj(c)].enabled,
         cached |-> cap[CurObj(c)].loaded /\ cap[CurObj(c)].handler # None,
         handler |-> IF cap[CurObj(c)].loaded /\ cap[CurObj(c)].handler # None
                     THEN cap[CurObj(c)].handler ELSE None]]

\* The ways an execute_tool request or a request for an outer name without a
\* route fails.
Failures == {"UnknownTool", "ValueError", "RuntimeError", "ImportError",
             "AttributeError", "ExecutionError"}

C28_UnknownNameIsError ==
    \A t \in Tasks :
        (task[t].pc = "done" /\ task[t].op \in {"enable", "disable"}
           /\ task[t].names[1] \notin CapNames)
            => ServerResponse(task[t]) = "error"

\* C29: a load() that fails raises RuntimeError, the wrapping error kind,
\* whatever made it fail; execute_tool hands on what load() raised.
C29_LoadFailuresWrapped ==
    \A t \in Tasks :
        (Done(t, "execute") /\ task[t].obj # NoObj /\ task[t].got = Pending)
            => task[t].outcome = "RuntimeError"

\* The last load() of object o failed in initialize(): the object still
\* holds the instance that failed.
LoadFailed(o) ==
    /\ cap[o].handler \in Ids
    /\ handlers[cap[o].handler].obj = o
    /\ handlers[cap[o].handler].st = "failed"

\* The capability object a name is routed to, by the tools lists.
RoutedTo(n, o) ==
    \E i \in Owners(n) : o = CurObj(CapOrder[i]) /\ \A j \in Owners(n) : i <= j

\* C30: a failed load() is not cached. An execute_tool or describe_tools that
\* reaches a capability whose last load() failed constructs a new handler
\* instance and awaits its initialize() (or fails at the import), and never
\* goes on with the instance that failed; when the initialize() of such a
\* retry returns, the capability is loaded and holds the instance that was
\* initialised.
C30_FailureIsRetried ==
    [][\A t \in Tasks, o \in Objs :
          /\ (LoadFailed(o) /\ task[t].pc = "idle"
                /\ task'[t].op \in {"execute", "describe"}
                /\ task'[t].names # <<>>
                /\ RoutedTo(task'[t].names[1], o))
               => \/ /\ task'[t].pc = "init"
                     /\ task'[t].obj = o
                     /\ task'[t].h = Len(handlers) + 1
                     /\ Len(handlers') = Len(handlers) + 1
                     /\ handlers'[task'[t].h].st = "initializing"
                     /\ cap'[o].handler = task'[t].h
                  \/ /\ task'[t].op = "execute"
                     /\ task'[t].pc = "done"
                     /\ task'[t].outcome = "ImportError"
                  \/ /\ task'[t].op = "describe"
                     /\ Len(task'[t].out) >= 1
                     /\ task'[t].out[1] = ErrorEntry(task'[t].names[1], "ImportError")
          /\ (task[t].pc = "init" /\ task[t].obj = o
                /\ handlers'[task[t].h].st = "ready"
                /\ \E k \in 1..(task[t].h - 1) :
                      handlers[k].obj = o /\ handlers[k].st = "failed")
               => /\ cap'[o].loaded
                  /\ cap'[o].handler = task[t].h]_vars

\* The capabilities of the catalog whose type is none of the five that the
\* if/elif chain of load() names.
Unsupported ==
    {c \in CapNames :
        CapType(c) \notin {"codanna", "context7", "playwright", "claude-mem",
                           "graphiti_ladybug"}}

\* C31: under every interleaving, a capability of an unsupported type is
\* never loaded and never holds a handler; every execute_tool routed to it
\* fails with the wrapped error and every describe_tools entry for one of its
\* tools is that error; and the call that fails on it changes no capability's
\* enabled, loaded or handler field and constructs no handler instance.
C31_UnsupportedTypeIsLocal ==
    /\ [](\A c \in Unsupported, g \in Gens :
            /\ ~cap[<<c, g>>].loaded
            /\ cap[<<c, g>>].handler = None)
    /\ [](\A t \in Tasks :
            /\ (Done(t, "execute") /\ task[t].obj[1] \in Unsupported)
                  => task[t].outcome = "RuntimeError"
            /\ task[t].op = "describe"
                  => \A i \in 1..Len(task[t].out) :
                        (\E c \in Unsupported : InSeq(task[t].out[i].name, CapTools(c)))
                           => task[t].out[i].err = "RuntimeError")
    /\ [][\A t \in Tasks :
            (task[t].pc = "idle" /\ task'[t].op = "execute"
               /\ \E c \in Unsupported : InSeq(task'[t].names[1], CapTools(c)))
            => /\ cap' = cap
               /\ handlers' = handlers
               /\ task'[t].pc = "done"]_vars

\* C31's case: an execute_tool on the tool of the enabled unsupported
\* capability failed while another capability was loaded.
C31_Witness ==
    \E t \in Tasks, c \in Unsupported, d \in CapNames \ Unsupported :
        /\ cap[CurObj(d)].loaded /\ cap[CurObj(d)].handler # None
        /\ cap[CurObj(c)].enabled
        /\ Done(t, "execute")
        /\ task[t].obj = CurObj(c)
        /\ task[t].outcome = "RuntimeError"

\* C32: for all counts p, s and flag e, estimate_token_cost returns
\* preview_tokens = 5p, schema_tokens = 200s, execution_tokens = 50 if e and
\* 0 otherwise, total_tokens = their sum, and the static baseline 10000.
C32_EstimateArithmetic ==
    \A t \in Tasks :
        Done(t, "estimate")
          => LET in == task[t].names[1]
                 est == task[t].out[1]
             IN  /\ est.preview_tokens = 5 * in.previews
                 /\ est.schema_tokens = 200 * in.schemas
                 /\ in.execution => est.execution_tokens = 50
                 /\ ~in.execution => est.execution_tokens = 0
                 /\ est.total_tokens = est.preview_tokens + est.schema_tokens
                                          + est.execution_tokens
                 /\ est.vs_static_loading = 10000

\* C32's case: an estimate for previews and schemas without an execution.
C32_Witness ==
    \E t \in Tasks :
        /\ Done(t, "estimate")
        /\ task[t].names[1] = [previews |-> 10, schemas |-> 2, execution |-> FALSE]
        /\ task[t].out[1].total_tokens = 450

\* C33 as stated: for every total > 0 the reduction factor is 10000 / total,
\* and for 0 < total < 10000 it is strictly greater than 1.
C33_ReductionExact ==
    \A t \in Tasks :
        (Done(t, "estimate") /\ task[t].out[1].total_tokens > 0)
          => LET est == task[t].out[1]
             IN  /\ est.reduction_tenths * est.total_tokens = 10 * 10000
                 /\ est.total_tokens < 10000 => est.reduction_tenths > 10

\* C33, amended: for every total > 0 the reduction factor is 10000 / total
\* rounded to one decimal (it differs from the quotient by at most 0.05);
\* for 0 < total < 10000 it is at least 1, and strictly greater than 1
\* whenever total is at most 9523; for total = 0 it is 0.
C33_ReductionRounded ==
    \A t \in Tasks :
        Done(t, "estimate")
          => LET est == task[t].out[1]
                 diff == 10 * est.reduction_tenths * est.total_tokens - 100 * 10000
             IN  /\ est.total_tokens = 0 => est.reduction_tenths = 0
                 /\ est.total_tokens > 0
                       => /\ 2 * diff <= 10 * est.total_tokens
                          /\ -2 * diff <= 10 * est.total_tokens
                 /\ (0 < est.total_tokens /\ est.total_tokens < 10000)
                       => est.reduction_tenths >= 10
                 /\ (0 < est.total_tokens /\ est.total_tokens <= 9523)
                       => est.reduction_tenths > 10

\* C33's case: an estimate whose total is below the baseline and whose
\* reported factor is 1.0.
C33_Witness ==
    \E t \in Tasks :
        /\ Done(t, "estimate")
        /\ task[t].out[1].total_tokens = 9600
        /\ task[t].out[1].reduction_tenths = 10

\* C34: every preview search_tools returns carries a tool name, a capability
\* whose tools list holds that name, the description the fixed table has for
\* the name ("No description available" for a name outside the table) and
\* the token estimate 200, whatever the state of the registry.
C34_PreviewFields ==
    \A t \in Tasks :
        Done(t, "search")
          => \A i \in 1..Len(task[t].out) :
                LET pv == task[t].out[i]
                IN  /\ DOMAIN pv = {"name", "capability", "description",
                                    "tokens_estimate"}
                    /\ pv.capability \in CapNames
                    /\ InSeq(pv.name, CapTools(pv.capability))
                    /\ pv.tokens_estimate = 200
                    /\ pv.name = "search_code"
                          => pv.description = "Search codebase semantically"
                    /\ pv.name = "find_symbol"
                          => pv.description = "Find symbol definition (sub-10ms)"
                    /\ pv.name \in {"disabled_tool", "legacy_tool"}
                          => pv.description = "No description available"

\* C34's case: one search returned a tool the table holds and a tool it does
\* not hold, while a capability was loaded.
C34_Witness ==
    \E t \in Tasks :
        /\ Done(t, "search")
        /\ \E i, j \in 1..Len(task[t].out) :
              /\ task[t].out[i].name = "disabled_tool"
              /\ task[t].out[j].name = "find_symbol"
        /\ \E c \in CapNames : cap[CurObj(c)].loaded

\* C35: one describe_tools batch constructs at most one handler instance per
\* capability it names: a batch that is suspended in the initialize() of an
\* instance it constructed for a capability is never suspended next in the
\* initialize() of another instance it constructed for the same capability.
C35_OneHandlerPerCapability ==
    [][\A t \in Tasks :
          (task[t].op = "describe" /\ task[t].pc = "init"
             /\ task'[t].op = "describe" /\ task'[t].pc = "init"
             /\ task'[t].h # task[t].h)
          => task'[t].obj[1] # task[t].obj[1]]_vars

\* C36: under every interleaving, the handler load() hands back to
\* execute_tool is an instance (not None) whose own initialize() has returned
\* successfully by then, and describe_tools never calls get_tool_schema on
\* None.
C36_HandedBackInitialised ==
    [][\A t \in Tasks :
          /\ (task[t].got = Pending /\ task'[t].got # Pending)
                => /\ task'[t].got # None
                   /\ handlers'[task'[t].got].st = "ready"
          /\ task'[t].op = "describe"
                => \A i \in 1..Len(task'[t].out) :
                      task'[t].out[i].err # "AttributeError"]_vars

\* C37: when disable_capability ran while a load() of the capability was
\* suspended in initialize(), the capability is still unloaded after that
\* load() resumes: the resuming step does not set loaded, and the handler
\* reference stays null when the resumed call starts no load of its own.
C37_DisableWinsOverLoad ==
    [][\A t \in Tasks :
          (task[t].pc = "init" /\ handlers[task[t].h].st = "retired"
             /\ task'[t] # task[t] /\ ~cap[task[t].obj].loaded)
          => /\ ~cap'[task[t].obj].loaded
             /\ (task[t].op = "execute" /\ cap[task[t].obj].handler = None)
                   => cap'[task[t].obj].handler = None]_vars

\* C38: a reload_catalog() that raises leaves the registry's capability
\* records, with their enabled, loaded and handler fields, and its stored
\* configuration exactly as they were before the call.
C38_ReloadAllOrNothing ==
    [][\A t \in Tasks :
          (task[t].pc = "idle" /\ task'[t].op = "reload"
             /\ task'[t].outcome # "returned")
          => /\ reg' = reg
             /\ cap' = cap
             /\ config' = config]_vars

\* C39: the facade's describe_tools returns one schema record per entry the
\* registry's describe_tools returned, in the same order, so that an entry
\* carrying an error is still there next to the schemas of its siblings.
C39_FacadeLossless ==
    \A t \in Tasks :
        Done(t, "facade_describe")
          => /\ Len(task[t].out) = Len(task[t].raw)
             /\ \A i \in 1..Len(task[t].raw) :
                   i <= Len(task[t].out) => task[t].out[i].name = task[t].raw[i].name

====
